---- MODULE Spec2Model ----
(***************************************************************************)
(* Ingestion pipeline of mitmproxy_log_to_ES: file discovery against the   *)
(* processed-files ledger, per-file extraction, bulk indexing, and the run *)
(* entry point process_logs.                                               *)
(*                                                                         *)
(* Python strings are sequences of one-character strings, so that         *)
(* splitting, stripping and concatenation are computed as the code        *)
(* computes them.  Python/JSON values are tagged records:                  *)
(*   [t |-> "null"], [t |-> "int", v |-> n], [t |-> "str", v |-> chars],   *)
(*   [t |-> "list", v |-> sequence], [t |-> "dict", v |-> function]        *)
(***************************************************************************)
EXTENDS Integers, Sequences, FiniteSets, TLC

Range(s) == {s[i] : i \in 1..Len(s)}

Last(s) == s[Len(s)]

Front(s) == SubSeq(s, 1, Len(s) - 1)

(* ------------------------------ strings ------------------------------- *)

\* str.endswith
endswith(s, suffix) ==
    /\ Len(s) >= Len(suffix)
    /\ SubSeq(s, Len(s) - Len(suffix) + 1, Len(s)) = suffix

\* `needle in haystack` for two strings: substring test
Substring(needle, s) ==
    \E i \in 1..(Len(s) - Len(needle) + 1) : SubSeq(s, i, i + Len(needle) - 1) = needle

\* the characters str.strip() removes (of those the model's strings use)
Whitespace == {" ", "\t", "\n", "\r", "\f"}

\* the characters at which text-mode readlines() ends a line
LineBreaks == {"\n", "\r"}

RECURSIVE lstrip(_)
lstrip(s) == IF s # <<>> /\ Head(s) \in Whitespace THEN lstrip(Tail(s)) ELSE s

RECURSIVE rstrip(_)
rstrip(s) == IF s # <<>> /\ Last(s) \in Whitespace THEN rstrip(Front(s)) ELSE s

strip(s) == rstrip(lstrip(s))

\* index of the first character of s that is in set cs, 0 if none
FirstIn(s, cs) ==
    IF \E i \in 1..Len(s) : s[i] \in cs
    THEN CHOOSE i \in 1..Len(s) : s[i] \in cs /\ \A j \in 1..(i - 1) : s[j] \notin cs
    ELSE 0

\* index of the last occurrence of character c in s, 0 if none
LastIndexOf(s, c) ==
    IF \E i \in 1..Len(s) : s[i] = c
    THEN CHOOSE i \in 1..Len(s) : s[i] = c /\ \A j \in (i + 1)..Len(s) : s[j] # c
    ELSE 0

\* file.readlines(): the lines of a text, each with its line break
RECURSIVE readlines(_)
readlines(text) ==
    IF text = <<>> THEN <<>>
    ELSE LET b   == FirstIn(text, LineBreaks)
             brk == IF b > 0 /\ b < Len(text) /\ text[b] = "\r" /\ text[b + 1] = "\n"
                    THEN b + 1 ELSE b
         IN  IF brk = 0 THEN <<text>>
             ELSE <<SubSeq(text, 1, brk)>> \o readlines(SubSeq(text, brk + 1, Len(text)))

\* str.split(sep) for a one-character separator
RECURSIVE split(_, _)
split(s, sep) ==
    LET i == FirstIn(s, {sep})
    IN  IF i = 0 THEN <<s>>
        ELSE <<SubSeq(s, 1, i - 1)>> \o split(SubSeq(s, i + 1, Len(s)), sep)

\* os.path.basename / os.path.dirname / os.path.join (POSIX)
basename(p) == SubSeq(p, LastIndexOf(p, "/") + 1, Len(p))

RECURSIVE rstrip_slash(_)
rstrip_slash(s) == IF s # <<>> /\ Last(s) = "/" THEN rstrip_slash(Front(s)) ELSE s

dirname(p) ==
    LET head == SubSeq(p, 1, LastIndexOf(p, "/"))
    IN  IF head # <<>> /\ \E i \in 1..Len(head) : head[i] # "/"
        THEN rstrip_slash(head) ELSE head

path_join(a, b) ==
    IF b # <<>> /\ Head(b) = "/" THEN b
    ELSE IF a = <<>> \/ Last(a) = "/" THEN a \o b
    ELSE a \o <<"/">> \o b

(* --------------------------- Python values ---------------------------- *)

None == [t |-> "null"]

PyInt(n) == [t |-> "int", v |-> n]

PyStr(s) == [t |-> "str", v |-> s]

PyList(l) == [t |-> "list", v |-> l]

PyDict(d) == [t |-> "dict", v |-> d]

EmptyDict == PyDict(<<>>)

\* the spelling of every dictionary key the records use
KeyChars ==
    [timestamp |-> <<"t","i","m","e","s","t","a","m","p">>,
     request   |-> <<"r","e","q","u","e","s","t">>,
     response  |-> <<"r","e","s","p","o","n","s","e">>,
     content   |-> <<"c","o","n","t","e","n","t">>,
     messages  |-> <<"m","e","s","s","a","g","e","s">>,
     role      |-> <<"r","o","l","e">>,
     choices   |-> <<"c","h","o","i","c","e","s">>,
     delta     |-> <<"d","e","l","t","a">>,
     message   |-> <<"m","e","s","s","a","g","e">>,
     model     |-> <<"m","o","d","e","l">>]

\* bool(v)
truthy(v) ==
    CASE v.t = "null" -> FALSE
      [] v.t = "int"  -> v.v # 0
      [] OTHER        -> v.v # <<>>

\* `key in v` for a string key: "T", "F", or "E" when Python raises TypeError
PyIn(key, v) ==
    CASE v.t = "dict" -> IF key \in DOMAIN v.v THEN "T" ELSE "F"
      [] v.t = "str"  -> IF Substring(KeyChars[key], v.v) THEN "T" ELSE "F"
      [] v.t = "list" -> IF \E i \in 1..Len(v.v) : v.v[i] = PyStr(KeyChars[key])
                         THEN "T" ELSE "F"
      [] OTHER        -> "E"

\* whether `for x in v` raises TypeError
NotIterable(v) == v.t \in {"int", "null"}

\* the elements `for x in v` visits (a dict yields its keys, a str its characters)
PyIter(v) ==
    CASE v.t = "list" -> v.v
      [] v.t = "str"  -> [i \in 1..Len(v.v) |-> PyStr(<<v.v[i]>>)]
      [] v.t = "dict" ->
            LET RECURSIVE keys(_)
                keys(ks) == IF ks = {} THEN <<>>
                            ELSE LET k == CHOOSE k \in ks : TRUE
                                 IN  <<PyStr(KeyChars[k])>> \o keys(ks \ {k})
            IN  keys(DOMAIN v.v)
      [] OTHER        -> <<>>

\* dict.get(key, default)
dict_get(d, key, default) == IF key \in DOMAIN d.v THEN d.v[key] ELSE default

(* ------------------------------ JSON text ----------------------------- *)

Digits == <<"0", "1", "2", "3", "4", "5", "6", "7", "8", "9">>

\* the JSON text of a string (the strings used need no escapes), of an object
\* member, of an object and of an array
Quoted(s) == <<"\"">> \o s \o <<"\"">>

Member(key, text) == Quoted(KeyChars[key]) \o <<":">> \o text

Object(members) == <<"{">> \o members \o <<"}">>

Array(items) == <<"[">> \o items \o <<"]">>

Comma == <<",">>

(* values that occur in the records, as objects or as JSON text *)

Hello == <<"h", "e", "l", "l", "o">>

Hel == <<"H", "e", "l">>

Lo == <<"l", "o">>

Stamp == PyStr(<<"T", "1">>)

UserRole == PyStr(<<"u", "s", "e", "r">>)

AssistantRole == PyStr(<<"a", "s", "s", "i", "s", "t", "a", "n", "t">>)

UserMsg == PyDict([role |-> UserRole, content |-> PyStr(<<"h", "i">>)])

SystemMsg == PyDict([role |-> PyStr(<<"s", "y", "s">>), content |-> PyStr(<<"b", "e">>)])

NoContentMsg == PyDict([role |-> UserRole])

ModelName == PyStr(<<"g", "p", "t">>)

Messages1 == PyDict([messages |-> PyList(<<UserMsg>>)])

Messages2 == PyDict([model |-> ModelName, messages |-> PyList(<<SystemMsg, UserMsg>>)])

DeltaChunk(s) == PyDict([choices |-> PyList(<<PyDict([delta |-> PyDict([content |-> s])])>>)])

StreamChunks == PyList(<<DeltaChunk(PyStr(Hel)), DeltaChunk(PyStr(Lo))>>)

DirectChoice == PyDict([choices |-> PyList(<<PyDict([message |-> PyDict([content |-> PyStr(Hello)])])>>)])

\* the JSON texts of those values, as a client or a server writes them
UserMsgText ==
    Object(Member("role", Quoted(UserRole.v)) \o Comma \o Member("content", Quoted(<<"h", "i">>)))

SystemMsgText ==
    Object(Member("role", Quoted(<<"s", "y", "s">>)) \o Comma \o Member("content", Quoted(<<"b", "e">>)))

Messages1Text == Object(Member("messages", Array(UserMsgText)))

Messages2Text ==
    Object(Member("model", Quoted(ModelName.v)) \o Comma
           \o Member("messages", Array(SystemMsgText \o Comma \o UserMsgText)))

DeltaChunkText(s) ==
    Object(Member("choices", Array(Object(Member("delta", Object(Member("content", Quoted(s))))))))

StreamChunksText == Array(DeltaChunkText(Hel) \o Comma \o DeltaChunkText(Lo))

DirectChoiceText ==
    Object(Member("choices", Array(Object(Member("message", Object(Member("content", Quoted(Hello))))))))

\* the JSON texts that occur as a string in some record, each with its value
JsonTexts ==
    {[text |-> Messages1Text,    value |-> Messages1],
     [text |-> Messages2Text,    value |-> Messages2],
     [text |-> StreamChunksText, value |-> StreamChunks],
     [text |-> DirectChoiceText, value |-> DirectChoice],
     [text |-> <<"5">>,          value |-> PyInt(5)],
     [text |-> <<"[", "]">>,     value |-> PyList(<<>>)]}

\* json.loads(s): the value whose text s is; ok = FALSE for JSONDecodeError
JSONLoads(s) ==
    LET decode(hits) == IF hits = {} THEN [ok |-> FALSE, value |-> None]
                        ELSE [ok |-> TRUE, value |-> (CHOOSE e \in hits : TRUE).value]
    IN  decode({e \in JsonTexts : e.text = s})

\* lines 66-70 and 88-98: json.loads applied to a content that is a string
LoadContent(raw) == IF raw.t = "str" THEN JSONLoads(raw.v) ELSE [ok |-> FALSE, value |-> None]

(* ------------------- LogProcessor.extract_conversation ---------------- *)

Turn(role, content, log_data) ==
    [role |-> role, content |-> content, timestamp |-> dict_get(log_data, "timestamp", None)]

\* the loop over request_content['messages'] (lines 74-80): the turns appended,
\* and exc = TRUE when an element makes the loop raise
RECURSIVE MessageTurns(_, _)
MessageTurns(msgs, log_data) ==
    IF msgs = <<>> THEN [turns |-> <<>>, exc |-> FALSE]
    ELSE LET msg  == Head(msgs)
             rest == MessageTurns(Tail(msgs), log_data)
             body(has) ==
                 CASE has = "E" -> [turns |-> <<>>, exc |-> TRUE]
                   [] has = "F" -> rest
                   [] msg.t # "dict" -> [turns |-> <<>>, exc |-> TRUE]
                   [] OTHER ->
                        [turns |-> <<Turn(msg.v["role"], msg.v["content"], log_data)>> \o rest.turns,
                         exc   |-> rest.exc]
         IN  body(IF PyIn("role", msg) = "F" THEN "F" ELSE PyIn("content", msg))

\* lines 73-80: the turns taken from the request content once it is loaded
RequestContentTurns(request_content, log_data) ==
    IF request_content.t = "dict" /\ "messages" \in DOMAIN request_content.v
    THEN IF NotIterable(request_content.v["messages"]) THEN [turns |-> <<>>, exc |-> TRUE]
         ELSE MessageTurns(PyIter(request_content.v["messages"]), log_data)
    ELSE [turns |-> <<>>, exc |-> FALSE]

\* lines 62-80: the turns taken from request.content; a content that does not
\* parse is kept as the string it is (lines 67-70)
RequestTurns(log_data) ==
    LET none   == [turns |-> <<>>, exc |-> FALSE]
        raised == [turns |-> <<>>, exc |-> TRUE]
    IN  IF "request" \notin DOMAIN log_data.v THEN none
        ELSE LET request == log_data.v["request"]
                 has     == PyIn("content", request)
                 raw     == request.v["content"]
                 content_of(loaded) == IF loaded.ok THEN loaded.value ELSE raw
             IN  IF has = "F" THEN none
                 ELSE IF has = "E" \/ request.t # "dict" THEN raised
                 ELSE RequestContentTurns(content_of(LoadContent(raw)), log_data)

\* lines 103-109: the streamed text, and exc = TRUE when a chunk makes the loops raise
RECURSIVE ChoiceText(_)
ChoiceText(choices) ==
    IF choices = <<>> THEN [text |-> <<>>, exc |-> FALSE]
    ELSE LET choice == Head(choices)
             rest   == ChoiceText(Tail(choices))
             delta  == choice.v["delta"]
         IN  IF choice.t = "dict" /\ "delta" \in DOMAIN choice.v
                /\ delta.t = "dict" /\ "content" \in DOMAIN delta.v
                /\ truthy(delta.v["content"])
             THEN IF delta.v["content"].t # "str" THEN [text |-> <<>>, exc |-> TRUE]
                  ELSE [text |-> delta.v["content"].v \o rest.text, exc |-> rest.exc]
             ELSE rest

\* the accumulation with the operands swapped: message = content + message
RECURSIVE ChunkTextPrepended(_)
ChunkTextPrepended(chunks) ==
    IF chunks = <<>> THEN [text |-> <<>>, exc |-> FALSE]
    ELSE LET chunk == Head(chunks)
             rest  == ChunkTextPrepended(Tail(chunks))
         IN  IF chunk.t = "dict" /\ "choices" \in DOMAIN chunk.v /\ truthy(chunk.v["choices"])
             THEN IF NotIterable(chunk.v["choices"]) THEN [text |-> <<>>, exc |-> TRUE]
                  ELSE LET join(here) ==
                               IF here.exc THEN [text |-> here.text, exc |-> TRUE]
                               ELSE [text |-> rest.text \o here.text, exc |-> rest.exc]
                       IN  join(ChoiceText(PyIter(chunk.v["choices"])))
             ELSE rest

RECURSIVE ChunkText(_)
ChunkText(chunks) ==
    IF chunks = <<>> THEN [text |-> <<>>, exc |-> FALSE]
    ELSE LET chunk == Head(chunks)
             rest  == ChunkText(Tail(chunks))
         IN  IF chunk.t = "dict" /\ "choices" \in DOMAIN chunk.v /\ truthy(chunk.v["choices"])
             THEN IF NotIterable(chunk.v["choices"]) THEN [text |-> <<>>, exc |-> TRUE]
                  ELSE LET join(here) ==
                               IF here.exc THEN [text |-> here.text, exc |-> TRUE]
                               ELSE [text |-> here.text \o rest.text, exc |-> rest.exc]
                       IN  join(ChoiceText(PyIter(chunk.v["choices"])))
             ELSE rest

\* lines 118-129: the message of the first choice of a direct response
DirectTurns(response_content, log_data) ==
    LET choices == response_content.v["choices"]
        choice  == choices.v[1]
        message == choice.v["message"]
    IN  IF /\ choices.t = "list" /\ Len(choices.v) > 0
           /\ choice.t = "dict" /\ "message" \in DOMAIN choice.v
           /\ message.t = "dict" /\ "content" \in DOMAIN message.v
        THEN <<Turn(AssistantRole, message.v["content"], log_data)>>
        ELSE <<>>

\* lines 100-116: the assistant turn of a streamed response, none when the
\* chunks carry no text
StreamTurns(msg, log_data) ==
    IF msg.exc THEN [turns |-> <<>>, exc |-> TRUE]
    ELSE IF msg.text = <<>> THEN [turns |-> <<>>, exc |-> FALSE]
    ELSE [turns |-> <<Turn(AssistantRole, PyStr(msg.text), log_data)>>, exc |-> FALSE]

\* lines 88-129: the turns taken from the response content raw, loaded as loaded
ResponseContentTurns(raw, loaded, log_data) ==
    IF raw.t = "str" /\ ~loaded.ok
    THEN [turns |-> <<Turn(AssistantRole, raw, log_data)>>, exc |-> FALSE]
    ELSE LET response_content == IF loaded.ok THEN loaded.value ELSE raw
         IN  IF response_content.t = "list"
             THEN StreamTurns(ChunkText(response_content.v), log_data)
             ELSE IF response_content.t = "dict" /\ "choices" \in DOMAIN response_content.v
             THEN [turns |-> DirectTurns(response_content, log_data), exc |-> FALSE]
             ELSE [turns |-> <<>>, exc |-> FALSE]

\* lines 83-129: the turns taken from response.content
ResponseTurns(log_data) ==
    LET none   == [turns |-> <<>>, exc |-> FALSE]
        raised == [turns |-> <<>>, exc |-> TRUE]
    IN  IF "response" \notin DOMAIN log_data.v THEN none
        ELSE LET response == log_data.v["response"]
                 has      == PyIn("content", response)
             IN  IF has = "F" THEN none
                 ELSE IF has = "E" \/ response.t # "dict" THEN raised
                 ELSE ResponseContentTurns(response.v["content"],
                                           LoadContent(response.v["content"]), log_data)

\* the two parts in the other order: response first
extract_conversation_response_first(log_data) ==
    LET after(req) == IF req.exc THEN req.turns
                      ELSE ResponseTurns(log_data).turns \o req.turns
    IN  after(RequestTurns(log_data))

\* lines 56-135: one try block around both parts; an exception in the request
\* part leaves the response part unexecuted, and whatever was appended is returned
extract_conversation(log_data) ==
    LET after(req) == IF req.exc THEN req.turns
                      ELSE req.turns \o ResponseTurns(log_data).turns
    IN  after(RequestTurns(log_data))

(* ----------------------- utils: filename decoding ---------------------- *)

Unknown == <<"u", "n", "k", "n", "o", "w", "n">>

\* utils.extract_machine_id
extract_machine_id(filename) ==
    LET parts == split(filename, "_") IN IF Len(parts) > 1 THEN parts[2] ELSE Unknown

\* extract_ip_address reading the token at index 1
extract_ip_address_second_token(filename) ==
    LET parts == split(filename, "_") IN IF Len(parts) > 1 THEN parts[2] ELSE Unknown

\* utils.extract_ip_address
extract_ip_address(filename) ==
    LET parts == split(filename, "_") IN IF Len(parts) > 2 THEN parts[3] ELSE Unknown

\* utils.extract_editor_version
extract_editor_version(filename) ==
    LET parts == split(filename, "_") IN IF Len(parts) > 3 THEN parts[4] ELSE Unknown

(* --------------------- LogProcessor.extract_metadata ------------------- *)

\* line 156-157: the model is read only from an object-valued request.content;
\* any TypeError on the way is caught at line 159 and leaves the key out
HasModel(log_data) ==
    /\ "request" \in DOMAIN log_data.v
    /\ log_data.v["request"].t = "dict"
    /\ "content" \in DOMAIN log_data.v["request"].v
    /\ log_data.v["request"].v["content"].t = "dict"
    /\ "model" \in DOMAIN log_data.v["request"].v["content"].v

extract_metadata(log_data, filename) ==
    LET base == basename(filename)
    IN  (IF "proxy-time-consumed" \in DOMAIN log_data.v
         THEN [proxy_time_consumed |-> log_data.v["proxy-time-consumed"]] ELSE <<>>)
        @@ [ip_address     |-> extract_ip_address(base),
            machine_id     |-> extract_machine_id(base),
            editor_version |-> extract_editor_version(base)]
        @@ (IF HasModel(log_data)
            THEN [model |-> log_data.v["request"].v["content"].v["model"]] ELSE <<>>)

(* ----------------------- LogProcessor.process_file --------------------- *)

\* datetime.now().isoformat() at time now
isoformat(now) == PyStr(<<"N", Digits[now + 1]>>)

\* a file's content: kind "unreadable" (open fails), "malformed" (json.load raises
\* JSONDecodeError) or "json" with the parsed value in data

\* utils.load_json_file: ok = FALSE when it raises
load_json_file(file_content) ==
    IF file_content.kind = "json" THEN [ok |-> TRUE, value |-> file_content.data]
    ELSE [ok |-> FALSE, value |-> None]

\* process_file returning None for a record without conversation turns
process_file_requiring_turns(file_info, file_content, now) ==
    LET file_name == basename(file_info.path)
        document(log_data) ==
            [timestamp    |-> dict_get(log_data, "timestamp", isoformat(now)),
             file_name    |-> file_name,
             user_id      |-> file_info.user_id,
             conversation |-> extract_conversation(log_data),
             metadata     |-> extract_metadata(log_data, file_name)]
        checked(doc) ==
            IF doc.conversation = <<>> THEN [ok |-> FALSE, document |-> <<>>]
            ELSE [ok |-> TRUE, document |-> doc]
        result(loaded) ==
            IF ~loaded.ok \/ loaded.value.t # "dict" THEN [ok |-> FALSE, document |-> <<>>]
            ELSE checked(document(loaded.value))
    IN  result(load_json_file(file_content))

\* process_file: ok = FALSE for the None returned from the except branch
\* (load_json_file raised, or log_data.get raised on a value that is no dict)
process_file(file_info, file_content, now) ==
    LET file_name == basename(file_info.path)
        document(log_data) ==
            [timestamp    |-> dict_get(log_data, "timestamp", isoformat(now)),
             file_name    |-> file_name,
             user_id      |-> file_info.user_id,
             conversation |-> extract_conversation(log_data),
             metadata     |-> extract_metadata(log_data, file_name)]
        result(loaded) ==
            IF ~loaded.ok \/ loaded.value.t # "dict" THEN [ok |-> FALSE, document |-> <<>>]
            ELSE [ok |-> TRUE, document |-> document(loaded.value)]
    IN  result(load_json_file(file_content))

(* -------------------------- utils: the ledger -------------------------- *)

\* get_processed_files without the strip() of each line
get_processed_files_unstripped(log) == Range(readlines(log))

\* utils.get_processed_files: the stripped lines of the processed-files log
\* (an absent log is the empty text)
get_processed_files(log) == {strip(line) : line \in Range(readlines(log))}

\* mark_file_as_processed writing the path without the newline
mark_without_newline(log, file_path) == log \o file_path

\* mark_file_as_processed opening the ledger for writing instead of appending
mark_truncating(log, file_path) == file_path \o <<"\n">>

\* utils.mark_file_as_processed: append the path and a newline
mark_file_as_processed(log, file_path) == log \o file_path \o <<"\n">>

(* ------------------------------ file system ---------------------------- *)

JsonExt == <<".", "j", "s", "o", "n">>

RootA == <<"a", "/", "c">>

RootB == <<"b", "/", "c">>

RootZ == <<"z", "/", "c">>

\* config.LOG_SOURCE_DIRS: the <user>/chat-panel directories found at start-up
LOG_SOURCE_DIRS == <<RootA, RootZ, RootB>>

\* os.path.exists(source_dir): the second directory has been removed since
ExistingRoots == {RootA, RootB}

\* the files that may exist, in the order os.walk lists them
FileTable ==
    <<[dir |-> RootA,                name |-> <<"x">> \o JsonExt],
      [dir |-> RootA,                name |-> <<"r", ".", "t", "x", "t">>],
      [dir |-> RootA \o <<"/", "d">>, name |-> <<"y">> \o JsonExt],
      [dir |-> RootB,                name |-> <<"n", "\n", "z">> \o JsonExt]>>

FileIds == 1..Len(FileTable)

PathOf(f) == path_join(FileTable[f].dir, FileTable[f].name)

FileOfPath(p) == CHOOSE f \in FileIds : PathOf(f) = p

\* whether directory d is source_dir or below it
Under(d, source_dir) ==
    \/ d = source_dir
    \/ /\ Len(d) > Len(source_dir)
       /\ SubSeq(d, 1, Len(source_dir) + 1) = source_dir \o <<"/">>

\* os.walk(source_dir): the full paths of the files present below it, in order
RECURSIVE WalkFrom(_, _, _)
WalkFrom(f, source_dir, files) ==
    IF f > Len(FileTable) THEN <<>>
    ELSE (IF f \in files /\ Under(FileTable[f].dir, source_dir)
          THEN <<f>> ELSE <<>>) \o WalkFrom(f + 1, source_dir, files)

os_walk(source_dir, files) == WalkFrom(1, source_dir, files)

\* config.get_user_id_from_path
get_user_id_from_path(log_dir) == basename(dirname(log_dir))

(* ------------------ LogProcessor.get_unprocessed_files ----------------- *)

\* lines 36-44: the file_info of every .json file below source_dir whose full
\* path is not in processed_files
RECURSIVE Unprocessed(_, _, _)
Unprocessed(walked, user_id, processed) ==
    IF walked = <<>> THEN <<>>
    ELSE LET f         == Head(walked)
             full_path == PathOf(f)
         IN  (IF endswith(FileTable[f].name, JsonExt) /\ full_path \notin processed
              THEN <<[path |-> full_path, user_id |-> user_id]>> ELSE <<>>)
             \o Unprocessed(Tail(walked), user_id, processed)

\* the loop over the source directories ending at a missing one
RECURSIVE CollectUntilMissing(_, _, _)
CollectUntilMissing(dirs, processed, files) ==
    IF dirs = <<>> THEN <<>>
    ELSE LET source_dir == Head(dirs)
         IN  IF source_dir \notin ExistingRoots THEN <<>>
             ELSE Unprocessed(os_walk(source_dir, files),
                              get_user_id_from_path(source_dir), processed)
                  \o CollectUntilMissing(Tail(dirs), processed, files)

\* lines 28-44: all source directories in turn, a missing one skipped
RECURSIVE Collect(_, _, _)
Collect(dirs, processed, files) ==
    IF dirs = <<>> THEN <<>>
    ELSE LET source_dir == Head(dirs)
         IN  (IF source_dir \notin ExistingRoots THEN <<>>
              ELSE Unprocessed(os_walk(source_dir, files),
                               get_user_id_from_path(source_dir), processed))
             \o Collect(Tail(dirs), processed, files)

\* the sort with reverse = True: newest first
RECURSIVE SortNewestFirst(_, _)
SortNewestFirst(infos, mt) ==
    IF infos = <<>> THEN <<>>
    ELSE LET sorted == SortNewestFirst(Front(infos), mt)
             x      == Last(infos)
             key(i) == mt[FileOfPath(i.path)]
             n      == Cardinality({j \in 1..Len(sorted) : key(sorted[j]) >= key(x)})
         IN  SubSeq(sorted, 1, n) \o <<x>> \o SubSeq(sorted, n + 1, Len(sorted))

\* list.sort(key = getmtime): stable, ascending
RECURSIVE SortByMtime(_, _)
SortByMtime(infos, mt) ==
    IF infos = <<>> THEN <<>>
    ELSE LET sorted == SortByMtime(Front(infos), mt)
             x      == Last(infos)
             key(i) == mt[FileOfPath(i.path)]
             n      == Cardinality({j \in 1..Len(sorted) : key(sorted[j]) <= key(x)})
         IN  SubSeq(sorted, 1, n) \o <<x>> \o SubSeq(sorted, n + 1, Len(sorted))

\* the slice files[-max_files:] in place of files[:max_files]
TruncateNewest(infos, max_files) ==
    IF max_files # {} /\ (\A n \in max_files : n > 0)
    THEN LET n == CHOOSE n \in max_files : TRUE
         IN  SubSeq(infos, IF n < Len(infos) THEN Len(infos) - n + 1 ELSE 1, Len(infos))
    ELSE infos

\* max_files is {} for None and {n} for the integer n
Truncate(infos, max_files) ==
    IF max_files # {} /\ (\A n \in max_files : n > 0)
    THEN LET n == CHOOSE n \in max_files : TRUE
         IN  SubSeq(infos, 1, IF n < Len(infos) THEN n ELSE Len(infos))
    ELSE infos

get_unprocessed_files(source_dirs, processed, max_files, files, mt) ==
    Truncate(SortByMtime(Collect(source_dirs, processed, files), mt), max_files)

(* ------------------------------ ESClient ------------------------------- *)

\* create_index_if_not_exists: es_error is an ElasticsearchException raised by
\* indices.exists or indices.create; it is caught and False returned
create_index_if_not_exists(exists, es_error) ==
    IF es_error THEN [ok |-> FALSE, exists |-> exists] ELSE [ok |-> TRUE, exists |-> TRUE]

\* helpers.bulk reporting every submitted document as a success
helpers_bulk_all(n, accepted) == [success |-> n, failed |-> 0]

\* helpers.bulk(..., stats_only=True, raise_on_error=False): (success, failed)
helpers_bulk(n, accepted) == [success |-> Cardinality(accepted), failed |-> n - Cardinality(accepted)]

\* bulk_index: outcome is "index_error", "bulk_error" (helpers.bulk raises an
\* ElasticsearchException and nothing is indexed) or "sent", with the positions of
\* the documents the sink accepted; count is the value returned
bulk_index(docs, exists, outcome, accepted) ==
    IF docs = <<>> THEN [count |-> 0, exists |-> exists, submitted |-> FALSE, written |-> {}]
    ELSE LET created == create_index_if_not_exists(exists, outcome = "index_error")
         IN  IF ~created.ok
             THEN [count |-> 0, exists |-> created.exists, submitted |-> FALSE, written |-> {}]
             ELSE IF outcome = "bulk_error"
             THEN [count |-> 0, exists |-> created.exists, submitted |-> TRUE, written |-> {}]
             ELSE [count |-> helpers_bulk(Len(docs), accepted).success,
                   exists |-> created.exists, submitted |-> TRUE, written |-> accepted]

\* process_logs calling bulk_index whatever process_files returned, and
\* bulk_index creating the index and submitting whatever it is given
index_always(docs, exists, outcome, accepted) ==
    IF docs = <<>>
    THEN [called |-> TRUE, count |-> 0, exists |-> TRUE, submitted |-> TRUE, written |-> {}]
    ELSE [called |-> TRUE] @@ bulk_index(docs, exists, outcome, accepted)

\* process_logs lines 33-40: bulk_index is called only when process_files
\* returned documents (called; count is -1 when it is not)
index_if_documents(docs, exists, outcome, accepted) ==
    IF docs = <<>>
    THEN [called |-> FALSE, count |-> -1, exists |-> exists, submitted |-> FALSE,
          written |-> {}]
    ELSE [called |-> TRUE] @@ bulk_index(docs, exists, outcome, accepted)

(* ------------------------------- bounds -------------------------------- *)

\* runs of process_logs in one behaviour
MaxRuns == 2

\* config.MAX_FILES_PER_BATCH, scaled to the number of files of the model
MAX_FILES_PER_BATCH == 2

(* ----------------------------- file contents --------------------------- *)

Absent == [kind |-> "absent", data |-> None]

Unreadable == [kind |-> "unreadable", data |-> None]

Malformed == [kind |-> "malformed", data |-> None]

NonDict == [kind |-> "json", data |-> PyList(<<>>)]

ZeroTurn == [kind |-> "json", data |-> EmptyDict]

Good ==
    [kind |-> "json",
     data |-> PyDict([timestamp |-> Stamp,
                      request   |-> PyDict([content |-> Messages1]),
                      response  |-> PyDict([content |-> PyStr(Hello)])])]

\* what each file of FileTable may hold when it appears
ContentChoices(f) ==
    CASE f = 1 -> {Good, ZeroTurn}
      [] f = 2 -> {Malformed}
      [] f = 3 -> {Malformed, Unreadable, NonDict}
      [] f = 4 -> {ZeroTurn}

(* -------------------------------- state -------------------------------- *)

VARIABLES
    present,            \* the files that exist
    mtime,              \* os.path.getmtime of each
    content,            \* what each holds
    clock,              \* the time
    ledger_file,        \* the text of config.PROCESSED_FILES_LOG
    index_exists,       \* the sink: whether the index exists
    pc,                 \* where process_logs is: idle, extracting, writing, ended
    processed_files,    \* LogProcessor.processed_files
    files_to_process,   \* process_files: files_to_process
    idx,                \* process_files: position of the loop
    documents,          \* process_files: documents
    max_files,          \* the max_files argument
    raised,             \* an exception left process_logs
    runs,               \* runs started
    dir_changed,        \* a file appeared since the last run started
    recorded,           \* files whose path was appended to the ledger
    run,                \* what the current (or last) run did
    prev,               \* what the run before it did
    log_data,           \* extraction alone: the record
    conversation,       \* extraction alone: the result
    tokens,             \* decoding alone: the tokens the file name was made of
    filename,           \* decoding alone: the file name
    metadata,           \* decoding alone: the result of extract_metadata
    driver,             \* the loops alone: where the loop that calls process_logs is
    calls               \* the loops alone: the invocations of process_logs, in order

fsVars == <<present, mtime, content>>

sinkVars == <<index_exists>>

procVars == <<pc, processed_files, files_to_process, idx, documents>>

pureVars == <<max_files, log_data, conversation, tokens, filename, metadata>>

loopVars == <<driver, calls>>

vars ==
    <<present, mtime, content, clock, ledger_file, index_exists, pc,
      processed_files, files_to_process, idx, documents, max_files, raised, runs,
      dir_changed, recorded, run, prev, log_data, conversation, tokens, filename,
      metadata, driver, calls>>

\* the record of a run: the files discovered, those whose document was assembled
\* (in order), those process_file failed on, those appended to the ledger, those
\* whose append failed, what the sink did (the files whose document it accepted),
\* the count bulk_index returned (-1: none), how and where the run ended, whether
\* the directory was unchanged since the run before, whether discovery was reached,
\* the file whose iteration a stop signal cut short
NoRun ==
    [files |-> <<>>, docs |-> <<>>, failed |-> {}, marked |-> {}, mark_failed |-> {},
     sink |-> "none", submitted |-> FALSE, accepted |-> {}, success_count |-> -1,
     end |-> "none", unchanged |-> FALSE, discovered |-> FALSE, exc |-> FALSE,
     at |-> "idle", interrupted |-> {}]

\* no file name is being decoded
NoName ==
    /\ tokens = <<>>
    /\ filename = <<>>
    /\ metadata = <<>>

\* no loop is running: process_logs is called as the actions say.  Of a loop:
\* which one, where it is, self._running, self.last_processed_time, the next run
\* of the scheduled job, whether the immediate call is still to come, when the
\* latest call began, whether a call outlasted the interval, whether a callback
\* has raised, and when the latest callback ended
NoDriver ==
    [mode |-> "none", at |-> "exited", running |-> FALSE, last_processed_time |-> 0,
     next_run |-> 0, immediate |-> FALSE, started |-> 0, late |-> FALSE,
     failed |-> FALSE, returned_at |-> 0]

NoLoop ==
    /\ driver = NoDriver
    /\ calls = <<>>

Init ==
    /\ present = {2}
    /\ mtime = [f \in FileIds |-> 0]
    /\ content = [f \in FileIds |-> IF f = 2 THEN Malformed ELSE Absent]
    /\ clock = 0
    /\ ledger_file = <<>>
    /\ index_exists = FALSE
    /\ pc = "idle"
    /\ processed_files = {}
    /\ files_to_process = <<>>
    /\ idx = 0
    /\ documents = <<>>
    /\ max_files = {MAX_FILES_PER_BATCH}
    /\ raised = FALSE
    /\ runs = 0
    /\ dir_changed = FALSE
    /\ recorded = {}
    /\ run = NoRun
    /\ prev = NoRun
    /\ log_data = None
    /\ conversation = <<>>
    /\ NoName
    /\ NoLoop

(* ------------------------------- actions ------------------------------- *)

\* the proxy writes a new log file (while no run is in progress; files that
\* appear after the last run of the behaviour are seen by no run).  Its
\* modification time is the time of writing, so it is newer than every file
\* an earlier run has seen; files are not changed or removed afterwards
AddFile ==
    /\ pc = "idle"
    /\ runs < MaxRuns
    /\ \E f \in FileIds \ present : \E c \in ContentChoices(f) :
          /\ present' = present \cup {f}
          /\ mtime' = [mtime EXCEPT ![f] = clock]
          /\ content' = [content EXCEPT ![f] = c]
    /\ dir_changed' = TRUE
    /\ UNCHANGED <<loopVars, clock, ledger_file, sinkVars, procVars, pureVars, raised, runs,
                   recorded, run, prev>>

\* the loop body without its except clause
NotAbsorbed == FALSE

\* log_processor.py lines 218-220: an exception inside the loop body is logged
\* and the loop goes on
AbsorbedPerFile == TRUE

\* main.py lines 42-45: an exception inside process_logs is logged and swallowed
AbsorbedByRun == TRUE

\* process_logs returns (how = "returned") or the process dies (how = "crashed")
Finish(how, r) ==
    /\ pc' = "ended"
    /\ processed_files' = {}
    /\ files_to_process' = <<>>
    /\ idx' = 0
    /\ documents' = <<>>
    /\ run' = [r EXCEPT !.end = how, !.at = pc]

\* an exception leaves process_files and reaches the handler of process_logs
Propagate(r) ==
    /\ Finish("returned", [r EXCEPT !.exc = TRUE])
    /\ raised' = (raised \/ ~AbsorbedByRun)

\* process_logs, lines 26-33 up to the loop of process_files: LogProcessor()
\* reads the ledger (readable = FALSE: reading it raises), process_files
\* discovers; with nothing discovered process_files returns [] (lines 199-201)
\* and process_logs, after its test of the documents, returns
StartRun ==
    /\ pc = "idle"
    /\ runs < MaxRuns
    /\ runs' = runs + 1
    /\ clock' = clock + 1
    /\ dir_changed' = FALSE
    /\ prev' = run
    /\ \E readable \in BOOLEAN :
       \E seen \in {get_processed_files(ledger_file)} :
       \E found \in {get_unprocessed_files(LOG_SOURCE_DIRS, seen, max_files, present, mtime)} :
          LET r0    == [NoRun EXCEPT !.unchanged = (run.end # "none" /\ ~dir_changed),
                                     !.end = "running"]
              r1    == [r0 EXCEPT !.files = [i \in 1..Len(found) |-> FileOfPath(found[i].path)],
                                  !.discovered = TRUE]
          IN  IF ~readable THEN Propagate(r0) /\ UNCHANGED sinkVars
              ELSE IF found = <<>>
              THEN \E res \in {index_if_documents(<<>>, index_exists, "sent", {})} :
                      /\ index_exists' = res.exists
                      /\ Finish("returned",
                                [r1 EXCEPT !.sink = IF res.called THEN "sent" ELSE @,
                                           !.submitted = res.submitted,
                                           !.success_count = res.count])
                      /\ UNCHANGED raised
              ELSE /\ pc' = "extracting"
                   /\ processed_files' = seen
                   /\ files_to_process' = found
                   /\ idx' = 1
                   /\ documents' = <<>>
                   /\ run' = r1
                   /\ UNCHANGED <<raised, sinkVars>>
    /\ UNCHANGED <<loopVars, fsVars, ledger_file, pureVars, recorded>>

\* the loop of process_files goes on to the next file, or ends: process_files
\* returns docs and process_logs goes on to bulk_index, or returns when docs is empty
Advance(docs, r) ==
    IF idx = Len(files_to_process) /\ docs = <<>> THEN Finish("returned", r)
    ELSE /\ pc' = IF idx = Len(files_to_process) THEN "writing" ELSE "extracting"
         /\ idx' = idx + 1
         /\ documents' = docs
         /\ run' = r
         /\ UNCHANGED <<processed_files, files_to_process>>

\* the loop body putting the document at the head of documents
process_files_step_prepending(file_info, file_content, now, log, docs, writable) ==
    LET body(document) ==
            IF ~document.ok THEN [documents |-> docs, log |-> log, outcome |-> "failed"]
            ELSE IF writable
            THEN [documents |-> <<document.document>> \o docs,
                  log       |-> mark_file_as_processed(log, file_info.path),
                  outcome   |-> "marked"]
            ELSE [documents |-> <<document.document>> \o docs, log |-> log,
                  outcome   |-> "mark_failed"]
    IN  body(process_file(file_info, file_content, now))

\* the loop body marking the file outside the `if document:` test
process_files_step_marks_all(file_info, file_content, now, log, docs, writable) ==
    LET body(document) ==
            IF ~document.ok
            THEN [documents |-> docs, log |-> mark_file_as_processed(log, file_info.path),
                  outcome   |-> "failed"]
            ELSE [documents |-> Append(docs, document.document),
                  log       |-> mark_file_as_processed(log, file_info.path),
                  outcome   |-> "marked"]
    IN  body(process_file(file_info, file_content, now))

\* the body of the loop of process_files (lines 206-216) for one file: the
\* documents and the ledger text after it.  outcome is "failed" (process_file
\* returned None), "marked", or "mark_failed" (writable = FALSE: the append to the
\* ledger raises, after the document was appended to documents)
process_files_step(file_info, file_content, now, log, docs, writable) ==
    LET body(document) ==
            IF ~document.ok THEN [documents |-> docs, log |-> log, outcome |-> "failed"]
            ELSE IF writable
            THEN [documents |-> Append(docs, document.document),
                  log       |-> mark_file_as_processed(log, file_info.path),
                  outcome   |-> "marked"]
            ELSE [documents |-> Append(docs, document.document), log |-> log,
                  outcome   |-> "mark_failed"]
    IN  body(process_file(file_info, file_content, now))

\* one iteration of the loop of process_files (lines 205-220)
ProcessNextFile ==
    /\ pc = "extracting"
    /\ \E writable \in BOOLEAN :
       \E step \in {process_files_step(files_to_process[idx],
                                       content[FileOfPath(files_to_process[idx].path)],
                                       clock, ledger_file, documents, writable)} :
          LET f == FileOfPath(files_to_process[idx].path)
              r == [run EXCEPT
                              !.docs = IF step.documents # documents THEN Append(@, f) ELSE @,
                              !.failed = IF step.outcome = "failed" THEN @ \cup {f} ELSE @,
                              !.marked = IF step.log # ledger_file THEN @ \cup {f} ELSE @,
                              !.mark_failed = IF step.outcome = "mark_failed"
                                              THEN @ \cup {f} ELSE @]
          IN  /\ step.outcome = "failed" => writable
              /\ ledger_file' = step.log
              /\ recorded' = IF step.log # ledger_file THEN recorded \cup {f} ELSE recorded
              /\ IF step.outcome = "mark_failed" /\ ~AbsorbedPerFile
                 THEN Propagate(r)
                 ELSE Advance(step.documents, r) /\ UNCHANGED raised
    /\ UNCHANGED <<loopVars, fsVars, clock, sinkVars, pureVars, runs, dir_changed, prev>>

\* process_logs lines 35-38: bulk_index(documents), then process_logs returns
BulkIndex ==
    /\ pc = "writing"
    /\ \E outcome \in {"index_error", "bulk_error", "sent"} :
       \E accepted \in SUBSET (1..Len(documents)) :
          /\ outcome # "sent" => accepted = {}
          /\ \E res \in {bulk_index(documents, index_exists, outcome, accepted)} :
                 /\ index_exists' = res.exists
                 /\ Finish("returned",
                           [run EXCEPT !.sink = outcome, !.submitted = res.submitted,
                                       !.accepted = {run.docs[i] : i \in res.written},
                                       !.success_count = res.count])
    /\ UNCHANGED <<loopVars, fsVars, clock, ledger_file, pureVars, raised, runs, dir_changed,
                   recorded, prev>>

\* the process dies during a run; the ledger file and the sink keep their state
Crash ==
    /\ pc \in {"extracting", "writing"}
    /\ Finish("crashed", run)
    /\ UNCHANGED <<loopVars, fsVars, clock, ledger_file, sinkVars, pureVars, raised, runs,
                   dir_changed, recorded, prev>>

\* the file of the current iteration of the loop of process_files
CurrentFile == FileOfPath(files_to_process[idx].path)

\* a stop signal during a run.  SIGTERM runs handle_sigterm (main.py lines 83-86:
\* watcher.stop(), then sys.exit(0)), SIGINT raises KeyboardInterrupt; both are
\* raised in the main thread at the instruction it is executing, and neither
\* SystemExit nor KeyboardInterrupt is an Exception, so no handler of process_file,
\* process_files, process_logs or FileWatcher.start absorbs them and the run is
\* left at that point: before the next iteration ("between"), inside
\* process_file ("assembling"), or after documents.append and before
\* mark_file_as_processed ("collected"); during bulk_index nothing of the run's
\* record changes.  The loop of process_files tests no flag
StopSignal ==
    /\ pc \in {"extracting", "writing"}
    /\ IF pc = "writing" THEN Finish("stopped", run)
       ELSE \E point \in {"between", "assembling", "collected"} :
            \E document \in {process_file(files_to_process[idx], content[CurrentFile], clock)} :
               /\ point = "collected" => document.ok
               /\ Finish("stopped",
                         [run EXCEPT !.interrupted = IF point = "between" THEN @
                                                     ELSE @ \cup {CurrentFile},
                                     !.docs = IF point = "collected"
                                              THEN Append(@, CurrentFile) ELSE @])
    /\ UNCHANGED <<loopVars, fsVars, clock, ledger_file, sinkVars, pureVars, raised, runs,
                   dir_changed, recorded, prev>>

\* the caller of process_logs (run_once, the schedule, the watcher, or a restart
\* after a crash) is where the next run can start; of the ended run the record
\* keeps what a later run can depend on
NextCycle ==
    /\ pc = "ended"
    /\ pc' = "idle"
    /\ run' = [run EXCEPT !.accepted = {}, !.success_count = -1, !.at = "idle"]
    /\ UNCHANGED <<loopVars, fsVars, clock, ledger_file, sinkVars, processed_files,
                   files_to_process, idx, documents, pureVars, raised, runs,
                   dir_changed, recorded, prev>>

Next ==
    AddFile \/ StartRun \/ ProcessNextFile \/ BulkIndex \/ Crash \/ StopSignal \/ NextCycle

Spec == Init /\ [][Next]_vars

(* ------------------------ extraction on its own ------------------------ *)

\* a stream with a chunk that is no object, a chunk of two choices, and a chunk
\* whose delta is empty
MixedChunks ==
    PyList(<<PyInt(5),
             PyDict([choices |-> PyList(<<PyDict([delta |-> PyDict([content |-> PyStr(Hel)])]),
                                          PyDict([delta |-> PyDict([content |-> PyStr(Lo)])]),
                                          PyDict([message |-> EmptyDict])>>)]),
             DeltaChunk(PyStr(<<>>)),
             DeltaChunk(PyStr(<<"!">>))>>)

\* the request and response entries a record may carry
RequestShapes ==
    <<PyInt(5),
      EmptyDict,
      PyDict([content |-> None]),
      PyDict([content |-> Messages1]),
      PyDict([content |-> PyStr(Messages1Text)]),
      PyDict([content |-> PyStr(Messages2Text)]),
      PyDict([content |-> PyStr(<<"5">>)]),
      PyDict([content |-> PyStr(Hello)]),
      PyDict([content |-> PyDict([messages |-> PyInt(5)])]),
      PyDict([content |-> PyDict([messages |-> PyList(<<PyInt(5)>>)])]),
      PyDict([content |-> PyDict([messages |-> PyList(<<UserMsg, PyInt(5)>>)])]),
      PyDict([content |-> PyDict([messages |-> PyList(<<NoContentMsg, UserMsg>>)])])>>

ResponseShapes ==
    <<PyInt(5),
      PyDict([content |-> None]),
      PyDict([content |-> PyStr(Hello)]),
      PyDict([content |-> StreamChunks]),
      PyDict([content |-> PyStr(StreamChunksText)]),
      PyDict([content |-> DirectChoice]),
      PyDict([content |-> PyStr(DirectChoiceText)]),
      PyDict([content |-> PyStr(<<"[", "]">>)]),
      PyDict([content |-> PyList(<<DeltaChunk(PyInt(5))>>)]),
      PyDict([content |-> MixedChunks])>>

\* the record with the given entries; position 0 of a shape list is an absent key
RecordOf(stamped, i, j) ==
    PyDict((IF stamped THEN [timestamp |-> Stamp] ELSE <<>>)
           @@ (IF i > 0 THEN [request |-> RequestShapes[i]] ELSE <<>>)
           @@ (IF j > 0 THEN [response |-> ResponseShapes[j]] ELSE <<>>))

\* everything but the record, the cap and the directory is as at start
AtRest ==
    /\ clock = 0
    /\ index_exists = FALSE
    /\ processed_files = {}
    /\ files_to_process = <<>>
    /\ idx = 0
    /\ documents = <<>>
    /\ raised = FALSE
    /\ runs = 0
    /\ dir_changed = FALSE
    /\ recorded = {}
    /\ run = NoRun
    /\ prev = NoRun
    /\ conversation = <<>>

InitExtract ==
    /\ AtRest
    /\ NoName
    /\ NoLoop
    /\ present = {}
    /\ mtime = [f \in FileIds |-> 0]
    /\ content = [f \in FileIds |-> Absent]
    /\ ledger_file = <<>>
    /\ max_files = {MAX_FILES_PER_BATCH}
    /\ pc = "record"
    /\ \E stamped \in BOOLEAN, i \in 0..Len(RequestShapes), j \in 0..Len(ResponseShapes) :
          log_data = RecordOf(stamped, i, j)

\* extract_conversation(log_data)
Extract ==
    /\ pc = "record"
    /\ pc' = "extracted"
    /\ conversation' = extract_conversation(log_data)
    /\ UNCHANGED <<loopVars, fsVars, clock, ledger_file, sinkVars, processed_files, files_to_process,
                   idx, documents, max_files, log_data, tokens, filename, metadata,
                   raised, runs, dir_changed, recorded, run, prev>>

NextExtract == Extract

SpecExtract == InitExtract /\ [][NextExtract]_vars

(* ------------------------- discovery on its own ------------------------ *)

\* modification times of the files of a directory listing
MaxTime == 2

\* the values of the max_files argument: None, not positive, below and above
\* the number of files
MaxFilesChoices == {{}} \cup {{n} : n \in (-1)..(MAX_FILES_PER_BATCH + 1)}

\* the ledger after the given files were marked, in order
RECURSIVE LedgerOf(_)
LedgerOf(fs) ==
    IF fs = <<>> THEN <<>> ELSE mark_file_as_processed(LedgerOf(Front(fs)), PathOf(Last(fs)))

LedgerChoices == {LedgerOf(fs) : fs \in {<<>>, <<1>>, <<3>>, <<4>>, <<1, 3>>, <<4, 1>>}}

InitDiscover ==
    /\ AtRest
    /\ NoName
    /\ NoLoop
    /\ present \in SUBSET FileIds
    /\ mtime \in [FileIds -> 0..MaxTime]
    /\ \A f \in FileIds \ present : mtime[f] = 0
    /\ content = [f \in FileIds |-> IF f \in present THEN Malformed ELSE Absent]
    /\ ledger_file \in LedgerChoices
    /\ max_files \in MaxFilesChoices
    /\ pc = "listing"
    /\ log_data = None

\* LogProcessor() followed by get_unprocessed_files(max_files)
Discover ==
    /\ pc = "listing"
    /\ pc' = "listed"
    /\ processed_files' = get_processed_files(ledger_file)
    /\ files_to_process' =
          get_unprocessed_files(LOG_SOURCE_DIRS, get_processed_files(ledger_file),
                                max_files, present, mtime)
    /\ UNCHANGED <<loopVars, fsVars, clock, ledger_file, sinkVars, idx, documents, pureVars, raised,
                   runs, dir_changed, recorded, run, prev>>

NextDiscover == Discover

SpecDiscover == InitDiscover /\ [][NextDiscover]_vars

(* ---------------------- filename decoding on its own ------------------- *)

\* the tokens a file name is made of: empty, a word, a dotted number
TokenChoices == {<<>>, <<"m">>, <<"1", ".", "2">>}

\* tokens in a file name
MaxTokens == 5

\* the tokens joined by underscores
RECURSIVE JoinTokens(_)
JoinTokens(toks) ==
    IF Len(toks) = 1 THEN toks[1]
    ELSE JoinTokens(Front(toks)) \o <<"_">> \o Last(toks)

\* records for extract_metadata: no request, a request that is no object, a
\* request content that is a string holding the word model, one that is an object
DecodeRecords ==
    <<EmptyDict,
      PyDict([request |-> PyInt(5)]),
      PyDict([request |-> PyDict([content |-> PyStr(Messages2Text)])]),
      PyDict([request |-> PyDict([content |-> Messages2])])>>

InitDecode ==
    /\ AtRest
    /\ NoLoop
    /\ present = {}
    /\ mtime = [f \in FileIds |-> 0]
    /\ content = [f \in FileIds |-> Absent]
    /\ ledger_file = <<>>
    /\ max_files = {MAX_FILES_PER_BATCH}
    /\ pc = "name"
    /\ metadata = <<>>
    /\ \E r \in 1..Len(DecodeRecords) : log_data = DecodeRecords[r]
    /\ \E k \in 1..MaxTokens : \E toks \in [1..k -> TokenChoices] :
          /\ tokens = [i \in 1..k |-> toks[i]]
          /\ filename = JoinTokens([i \in 1..k |-> toks[i]])

\* extract_metadata(log_data, filename)
Decode ==
    /\ pc = "name"
    /\ pc' = "decoded"
    /\ metadata' = extract_metadata(log_data, filename)
    /\ UNCHANGED <<loopVars, fsVars, clock, ledger_file, sinkVars, processed_files, files_to_process,
                   idx, documents, max_files, log_data, conversation, tokens, filename,
                   raised, runs, dir_changed, recorded, run, prev>>

NextDecode == Decode

SpecDecode == InitDecode /\ [][NextDecode]_vars

(* ------------------- the loops that call process_logs ------------------ *)

\* config.PROCESS_INTERVAL, scaled to the clock of the model
PROCESS_INTERVAL == 2

\* the time up to which the loops are followed
MaxNow == 6

\* invocations of process_logs by one loop
MaxCalls == 3

\* self.callback() in FileWatcher.start and job.run() in schedule.run_pending are
\* plain calls in the thread of the loop: the loop goes on when the call returns
CallDetached == FALSE

CallBlocks == TRUE

\* the statements behind the call: FileWatcher.start sets last_processed_time
\* (line 48) and sleeps; run_scheduled enters its loop after the immediate call, and
\* schedule sets the job's next run after each later one
AfterCall(d) ==
    CASE d.mode = "watch" -> [d EXCEPT !.last_processed_time = clock, !.at = "sleep"]
      [] d.immediate -> [d EXCEPT !.at = "pending", !.immediate = FALSE]
      [] OTHER -> [d EXCEPT !.next_run = clock + PROCESS_INTERVAL, !.at = "sleep"]

InitLoop ==
    /\ AtRest
    /\ NoName
    /\ present = {}
    /\ mtime = [f \in FileIds |-> 0]
    /\ content = [f \in FileIds |-> Absent]
    /\ ledger_file = <<>>
    /\ max_files = {MAX_FILES_PER_BATCH}
    /\ pc = "idle"
    /\ log_data = None
    /\ calls = <<>>
    /\ driver \in {[NoDriver EXCEPT !.mode = "watch", !.at = "test", !.running = TRUE],
                   [NoDriver EXCEPT !.mode = "schedule", !.at = "first_call",
                                    !.running = TRUE, !.next_run = PROCESS_INTERVAL,
                                    !.immediate = TRUE]}

\* what the loops leave alone
loopRest ==
    <<fsVars, ledger_file, sinkVars, procVars, pureVars, raised, runs, dir_changed,
      recorded, run, prev>>

\* the test of the interval one second early
interval_nearly_elapsed(current_time, last_processed_time, interval) ==
    current_time - last_processed_time >= interval - 1

\* FileWatcher.start line 35: (current_time - self.last_processed_time) >= interval
interval_elapsed(current_time, last_processed_time, interval) ==
    current_time - last_processed_time >= interval

\* the loop without the try around the callback
CallbackNotAbsorbed == FALSE

\* FileWatcher.start lines 40-45: an Exception raised by the callback is logged
\* and the loop goes on
CallbackAbsorbed == TRUE

\* process_logs is called: the invocation starts by reading the ledger
Call(d) ==
    /\ Len(calls) < MaxCalls
    /\ calls' = Append(calls, "reading")
    /\ driver' = IF CallBlocks THEN [d EXCEPT !.at = "in_callback", !.started = clock]
                 ELSE AfterCall([d EXCEPT !.started = clock])
    /\ UNCHANGED clock

\* FileWatcher.start lines 32-43: the test of the loop and of the interval
WatcherTest ==
    /\ UNCHANGED loopRest
    /\ driver.mode = "watch"
    /\ driver.at = "test"
    /\ IF ~driver.running THEN driver' = [driver EXCEPT !.at = "exited"] /\ UNCHANGED <<calls, clock>>
       ELSE IF interval_elapsed(clock, driver.last_processed_time, PROCESS_INTERVAL)
       THEN Call(driver)
       ELSE driver' = [driver EXCEPT !.at = "sleep"] /\ UNCHANGED <<calls, clock>>

\* run_scheduled line 61: the immediate process_logs()
FirstCall ==
    /\ UNCHANGED loopRest
    /\ driver.mode = "schedule"
    /\ driver.at = "first_call"
    /\ Call(driver)

\* run_scheduled line 66: schedule.run_pending() runs the job that is due
RunPending ==
    /\ UNCHANGED loopRest
    /\ driver.mode = "schedule"
    /\ driver.at = "pending"
    /\ IF clock >= driver.next_run THEN Call(driver)
       ELSE driver' = [driver EXCEPT !.at = "sleep"] /\ UNCHANGED <<calls, clock>>

\* an invocation of process_logs goes on: from reading the ledger (LogProcessor())
\* to the loop that appends to it, and from there to its return
RunStep ==
    /\ UNCHANGED loopRest
    /\ \E i \in 1..Len(calls) :
          /\ calls[i] \in {"reading", "appending"}
          /\ calls' = [calls EXCEPT ![i] = IF @ = "reading" THEN "appending" ELSE "returned"]
    /\ UNCHANGED <<driver, clock>>

\* the call ends and the loop goes on.  The callback of a FileWatcher is any
\* callable and may end by an Exception; the job of the schedule is process_logs,
\* which raises none (main.py lines 42-45).  Without the try of lines 40-45 the
\* outer handler (lines 56-59) would stop the watcher and raise
Return ==
    /\ UNCHANGED loopRest
    /\ driver.at = "in_callback"
    /\ Last(calls) = "returned"
    /\ \E exception \in (IF driver.mode = "watch" THEN BOOLEAN ELSE {FALSE}) :
          driver' =
              IF exception /\ ~CallbackAbsorbed
              THEN [driver EXCEPT !.failed = TRUE, !.returned_at = clock,
                                  !.running = FALSE, !.at = "exited"]
              ELSE AfterCall([driver EXCEPT
                                 !.late = @ \/ clock - driver.started >= PROCESS_INTERVAL,
                                 !.failed = @ \/ exception,
                                 !.returned_at = clock])
    /\ UNCHANGED <<calls, clock>>

\* time passes while process_logs runs
Tick ==
    /\ UNCHANGED loopRest
    /\ driver.at = "in_callback"
    /\ clock < MaxNow
    /\ clock' = clock + 1
    /\ UNCHANGED <<driver, calls>>

\* time.sleep(1) at the end of each round of either loop
Sleep ==
    /\ UNCHANGED loopRest
    /\ driver.at = "sleep"
    /\ clock < MaxNow
    /\ clock' = clock + 1
    /\ driver' = [driver EXCEPT !.at = IF driver.mode = "watch" THEN "test" ELSE "pending"]
    /\ UNCHANGED calls

\* SIGTERM (handle_sigterm: watcher.stop(), sys.exit(0)) or SIGINT: the loop
\* ends, and with it the invocation it is in
StopLoop ==
    /\ UNCHANGED loopRest
    /\ driver.at # "exited"
    /\ driver' = [driver EXCEPT !.running = FALSE, !.at = "exited"]
    /\ calls' = [i \in 1..Len(calls) |-> IF calls[i] = "returned" THEN "returned" ELSE "killed"]
    /\ UNCHANGED clock

NextLoop ==
    WatcherTest \/ FirstCall \/ RunPending \/ RunStep \/ Return \/ Tick \/ Sleep \/ StopLoop

SpecLoop == InitLoop /\ [][NextLoop]_vars

(* ------------------ one LogProcessor instance, reused ------------------ *)

\* the loop of process_files (lines 204-223) over the discovered files: the
\* documents, the ledger text and the files marked when it returns
RECURSIVE process_files_loop(_, _, _, _, _, _)
process_files_loop(files, contents, now, log, docs, marked) ==
    IF files = <<>> THEN [documents |-> docs, log |-> log, marked |-> marked]
    ELSE LET f == FileOfPath(Head(files).path)
             rest(step) ==
                 process_files_loop(Tail(files), contents, now, step.log, step.documents,
                                    IF step.outcome = "marked" THEN marked \cup {f} ELSE marked)
         IN  rest(process_files_step(Head(files), contents[f], now, log, docs, TRUE))

InitInstance ==
    /\ AtRest
    /\ NoName
    /\ NoLoop
    /\ present \in SUBSET FileIds
    /\ mtime = [f \in FileIds |-> 0]
    /\ content \in [FileIds -> {Absent, Malformed, Unreadable, NonDict, ZeroTurn, Good}]
    /\ \A f \in FileIds : content[f] \in (IF f \in present THEN ContentChoices(f) ELSE {Absent})
    /\ ledger_file \in LedgerChoices
    /\ max_files = {MAX_FILES_PER_BATCH}
    /\ pc = "new"
    /\ log_data = None

\* LogProcessor.__init__ (lines 19-22): the ledger is read into self.processed_files
Construct ==
    /\ pc = "new"
    /\ pc' = "constructed"
    /\ processed_files' = get_processed_files(ledger_file)
    /\ UNCHANGED <<loopVars, fsVars, clock, ledger_file, sinkVars, files_to_process, idx,
                   documents, pureVars, raised, runs, dir_changed, recorded, run, prev>>

\* process_files(max_files) on the instance: discovery against
\* self.processed_files, then the loop; nothing assigns self.processed_files
ProcessFilesOnInstance ==
    /\ pc \in {"constructed", "called"}
    /\ runs < MaxRuns
    /\ runs' = runs + 1
    /\ pc' = "called"
    /\ \E found \in {get_unprocessed_files(LOG_SOURCE_DIRS, processed_files, max_files,
                                          present, mtime)} :
       \E out \in {process_files_loop(found, content, clock, ledger_file, <<>>, {})} :
          /\ files_to_process' = found
          /\ documents' = out.documents
          /\ ledger_file' = out.log
          /\ recorded' = recorded \cup out.marked
    /\ UNCHANGED <<loopVars, fsVars, clock, sinkVars, processed_files, idx, pureVars, raised,
                   dir_changed, run, prev>>

NextInstance == Construct \/ ProcessFilesOnInstance

SpecInstance == InitInstance /\ [][NextInstance]_vars

(* ---------------- repeated runs over a fixed set of files --------------- *)

\* the files whose path reads back from the ledger as it was written
PlainFiles == {f \in FileIds : get_processed_files(mark_file_as_processed(<<>>, PathOf(f))) = {PathOf(f)}}

InitRepeat ==
    /\ AtRest
    /\ NoName
    /\ NoLoop
    /\ present \in SUBSET PlainFiles
    /\ mtime \in [FileIds -> 0..MaxTime]
    /\ \A f \in FileIds \ present : mtime[f] = 0
    /\ content \in [FileIds -> {Absent, Malformed, Unreadable, NonDict, ZeroTurn, Good}]
    /\ \A f \in FileIds : content[f] \in (IF f \in present THEN ContentChoices(f) ELSE {Absent})
    /\ ledger_file = <<>>
    /\ max_files \in {{n} : n \in 1..MAX_FILES_PER_BATCH}
    /\ pc = "idle"
    /\ log_data = None

\* one whole run of process_logs (main.py lines 23-45), every append to the
\* ledger succeeding: LogProcessor() reads the ledger, process_files discovers
\* and processes, bulk_index is given the documents; then the loop that called
\* it calls it again
RunOnce ==
    /\ pc = "idle"
    /\ \E outcome \in {"index_error", "bulk_error", "sent"} :
       \E seen \in {get_processed_files(ledger_file)} :
       \E found \in {get_unprocessed_files(LOG_SOURCE_DIRS, seen, max_files, present, mtime)} :
       \E out \in {process_files_loop(found, content, clock, ledger_file, <<>>, {})} :
       \E res \in {index_if_documents(out.documents, index_exists, outcome, {})} :
          /\ files_to_process' = found
          /\ ledger_file' = out.log
          /\ recorded' = recorded \cup out.marked
          /\ index_exists' = res.exists
    /\ UNCHANGED <<loopVars, fsVars, clock, pc, processed_files, idx, documents, pureVars,
                   raised, runs, dir_changed, run, prev>>

NextRepeat == RunOnce

SpecRepeat == InitRepeat /\ [][NextRepeat]_vars

(* ------------------------------- claims -------------------------------- *)

\* a path that a ledger line preserves: no line break inside it and no
\* whitespace at either end
PlainPath(p) ==
    /\ \A i \in 1..Len(p) : p[i] \notin LineBreaks
    /\ p # <<>> => Head(p) \notin Whitespace /\ Last(p) \notin Whitespace

\* the files an ended run leaves for the next one: those it discovered and did
\* not append to the ledger
Unrecorded(r) == Range(r.files) \ r.marked

\* C1 (as claimed): once a file's path has been appended to the ledger, no later
\* run's discovery returns the file
C1_Dedup == \A f \in Range(run.files) : f \notin (recorded \ run.marked)

\* C2 (as claimed): no path is appended to the ledger before the run's bulk write
\* has been submitted to the sink
C2_AppendAfterWrite == run.marked # {} => run.submitted

\* the order of the steps of a run
StepOrder ==
    {<<"idle", "extracting">>, <<"idle", "ended">>, <<"extracting", "extracting">>,
     <<"extracting", "writing">>, <<"extracting", "ended">>, <<"writing", "ended">>,
     <<"ended", "idle">>}

\* C2 (amended): a run goes from discovery to extraction to the write; a path is
\* appended to the ledger only during extraction, as the line path + newline, in
\* the step that assembles the file's document and before anything is handed to
\* the sink; the write appends nothing
C2_AppendWhileExtracting ==
    [][/\ pc' # pc => <<pc, pc'>> \in StepOrder
       /\ ledger_file' # ledger_file =>
             /\ pc = "extracting"
             /\ run.sink = "none"
             /\ ledger_file' = ledger_file \o PathOf(run.files[idx]) \o <<"\n">>
             /\ run'.docs = Append(run.docs, run.files[idx])
       /\ (run.sink = "none" /\ run'.sink # "none") =>
             pc = "writing" /\ ledger_file' = ledger_file]_vars

\* C2: the ledger holds a path of the run and the write has not been submitted
C2_Witness == pc = "writing" /\ run.marked # {} /\ ~run.submitted

\* C3 (as claimed): when a run is interrupted, no file of it is in the ledger
\* (none was submitted), and the next run rediscovers every one of them
C3_AtLeastOnce ==
    /\ run.end = "crashed" => run.marked = {}
    /\ (prev.end = "crashed" /\ run.discovered) => Range(prev.files) \subseteq Range(run.files)

\* C3 (amended): when a run is interrupted, every discovered file whose document
\* the run had not assembled is absent from the ledger, and the next run
\* rediscovers it
C3_UnassembledRediscovered ==
    /\ run.end = "crashed" =>
          \A f \in Range(run.files) \ Range(run.docs) :
              /\ f \notin run.marked
              /\ PathOf(f) \notin get_processed_files(ledger_file)
    /\ (prev.end = "crashed" /\ run.discovered) =>
          (Range(prev.files) \ Range(prev.docs)) \subseteq Range(run.files)

\* C3: a run crashed after appending one file and before reaching another, and
\* the next run has rediscovered the latter
C3_Witness ==
    /\ prev.end = "crashed"
    /\ prev.marked # {}
    /\ Range(prev.files) \ Range(prev.docs) # {}
    /\ run.discovered
    /\ (Range(prev.files) \ Range(prev.docs)) \subseteq Range(run.files)

\* C4 (as claimed): the second of two runs in a row on an unchanged directory
\* set discovers no file
C4_Idempotent ==
    (run.unchanged /\ prev.end = "returned" /\ prev.discovered /\ run.discovered)
        => run.files = <<>>

\* C4 (amended): the second of two runs in a row on an unchanged directory set
\* discovers only files the first run did not append to the ledger, or whose
\* path a ledger line does not preserve; it discovers none when the first run
\* discovered every unprocessed file and appended each, and each path is preserved
C4_SecondRunLeftovers ==
    (run.unchanged /\ prev.end = "returned" /\ prev.discovered /\ run.discovered) =>
        /\ \A f \in Range(run.files) : f \in Unrecorded(prev) \/ ~PlainPath(PathOf(f))
        /\ ( /\ Unrecorded(prev) = {}
             /\ \A n \in max_files : n <= 0 \/ Len(prev.files) < n
             /\ \A f \in prev.marked : PlainPath(PathOf(f)) ) => run.files = <<>>

\* C4: a run that appended a file was followed, with no change of the
\* directories, by a run that discovered nothing
C4_Witness ==
    /\ run.unchanged
    /\ prev.end = "returned"
    /\ prev.marked # {}
    /\ run.discovered
    /\ run.files = <<>>

\* C5: a file on which process_file fails (unreadable, malformed, or no document)
\* adds no document to the run, is not appended to the ledger, and the next run's
\* discovery returns it again
C5_FailedFileRetried ==
    /\ \A f \in run.failed :
          /\ f \notin Range(run.docs)
          /\ f \notin run.marked
          /\ PathOf(f) \notin get_processed_files(ledger_file)
    /\ (prev.end # "none" /\ run.discovered) => prev.failed \subseteq Range(run.files)

\* C5: a run assembled one file and failed on another, and the next run has
\* discovered the failed file again
C5_Witness ==
    /\ prev.failed # {}
    /\ prev.docs # <<>>
    /\ run.discovered
    /\ prev.failed \subseteq Range(run.files)

\* the ways the sink can be unavailable to bulk_index
SinkErrors == {"index_error", "bulk_error"}

\* C6 (as claimed, for the files whose append to the ledger succeeded): when
\* index creation or the whole bulk write fails, the count written is 0, the run
\* does not raise, every file that produced a document is in the ledger, and no
\* later run rediscovers it
C6_SinkUnavailable ==
    /\ (pc = "ended" /\ run.sink \in SinkErrors) =>
          /\ run.success_count = 0
          /\ ~raised
          /\ (Range(run.docs) \ run.mark_failed) \subseteq run.marked
    /\ (prev.sink \in SinkErrors /\ run.discovered) => Range(run.files) \cap prev.marked = {}

\* C7 (as claimed): when the sink accepts k of the n documents, bulk_index
\* returns k, the run does not raise, and all n files are in the ledger
C7_AllRecorded ==
    (pc = "ended" /\ run.sink = "sent") =>
        /\ run.success_count = Cardinality(run.accepted)
        /\ ~raised
        /\ Range(run.docs) \subseteq run.marked

\* C7 (amended): when the sink accepts k of the n documents, bulk_index returns
\* k, the run does not raise, and the ledger holds the line of every one of the n
\* files except those whose append failed, whichever documents were rejected
C7_PartialSuccess ==
    (pc = "ended" /\ run.sink = "sent") =>
        /\ run.accepted \subseteq Range(run.docs)
        /\ run.success_count = Cardinality(run.accepted)
        /\ ~raised
        /\ \A f \in Range(run.docs) \ run.mark_failed :
              f \in run.marked /\ Substring(PathOf(f) \o <<"\n">>, ledger_file)
        /\ \A f \in run.mark_failed : f \notin run.marked

\* C7: the sink accepted one of two documents of a run in which every append
\* succeeded
C7_Witness ==
    /\ pc = "ended"
    /\ run.sink = "sent"
    /\ Len(run.docs) = 2
    /\ Cardinality(run.accepted) = 1
    /\ run.marked = Range(run.docs)

\* C8 (as claimed): a failed append to the ledger propagates out of process_logs,
\* and nothing else does
C8_LedgerFailureFatal ==
    /\ run.mark_failed # {} => raised
    /\ raised => run.mark_failed # {}

\* C8 (amended): no failure propagates out of process_logs; a failed append to
\* the ledger is absorbed for its file, whose document stays in the run and whose
\* path stays out of the ledger, and the run goes on through its remaining files
\* to the write
C8_LedgerFailureAbsorbed ==
    /\ ~raised
    /\ \A f \in run.mark_failed : f \in Range(run.docs) /\ f \notin run.marked
    /\ (run.mark_failed # {} /\ run.end = "returned") =>
          /\ ~run.exc
          /\ Range(run.files) = Range(run.docs) \cup run.failed
          /\ run.sink # "none"

\* C8: the append failed for the first of two files, the second was appended,
\* and the run returned after the write
C8_Witness ==
    /\ pc = "ended"
    /\ run.end = "returned"
    /\ Len(run.files) = 2
    /\ run.files[1] \in run.mark_failed
    /\ run.files[2] \in run.marked
    /\ run.sink = "sent"
    /\ ~raised

\* the unprocessed .json files below the source directories that exist
Eligible ==
    {f \in present :
        /\ endswith(FileTable[f].name, JsonExt)
        /\ \E i \in 1..Len(LOG_SOURCE_DIRS) :
              LOG_SOURCE_DIRS[i] \in ExistingRoots /\ Under(FileTable[f].dir, LOG_SOURCE_DIRS[i])
        /\ PathOf(f) \notin processed_files}

\* the files discovery returned, in order
Selected == [i \in 1..Len(files_to_process) |-> FileOfPath(files_to_process[i].path)]

\* C9: discovery returns unprocessed .json files of all roots, each once, sorted
\* by modification time ascending; with a positive max_files exactly
\* min(max_files, number of unprocessed files) of them and none newer than a file
\* left out; without one, or with one that is not positive, all of them
C9_BatchCap ==
    pc = "listed" =>
        /\ Range(Selected) \subseteq Eligible
        /\ Cardinality(Range(Selected)) = Len(Selected)
        /\ \A i, j \in 1..Len(Selected) : i < j => mtime[Selected[i]] <= mtime[Selected[j]]
        /\ IF max_files # {} /\ \A n \in max_files : n > 0
           THEN \A n \in max_files :
                   Len(Selected) = IF n < Cardinality(Eligible) THEN n ELSE Cardinality(Eligible)
           ELSE Len(Selected) = Cardinality(Eligible)
        /\ \A f \in Eligible \ Range(Selected) : \A g \in Range(Selected) : mtime[g] <= mtime[f]

\* C9: of three unprocessed files two were returned under max_files = 2, the
\* older one from the second root ahead of a newer one from the first
C9_Witness ==
    /\ pc = "listed"
    /\ max_files = {2}
    /\ Cardinality(Eligible) = 3
    /\ Len(Selected) = 2
    /\ FileTable[Selected[1]].dir = RootB
    /\ FileTable[Selected[2]].dir = RootA
    /\ mtime[Selected[1]] < mtime[Selected[2]]

\* the record has a request whose content is present
HasRequestContent ==
    /\ "request" \in DOMAIN log_data.v
    /\ log_data.v["request"].t = "dict"
    /\ "content" \in DOMAIN log_data.v["request"].v

\* C10 (as claimed): whatever the shape of request.content, the assistant turn
\* that response.content yields is in the conversation extracted
C10_AbsorbedPerSource ==
    (pc = "extracted" /\ HasRequestContent) =>
        \A k \in 1..Len(ResponseTurns(log_data).turns) :
            ResponseTurns(log_data).turns[k] \in Range(conversation)

\* the record has a response whose content is present
HasResponseContent ==
    /\ "response" \in DOMAIN log_data.v
    /\ log_data.v["response"].t = "dict"
    /\ "content" \in DOMAIN log_data.v["response"].v

\* a content as the extraction sees it: parsed when it is a string that parses
LoadedValue(raw) ==
    IF raw.t = "str" /\ \E e \in JsonTexts : e.text = raw.v
    THEN (CHOOSE e \in JsonTexts : e.text = raw.v).value
    ELSE raw

\* the messages list of request.content, empty when there is none
RequestMessages ==
    IF ~HasRequestContent THEN <<>>
    ELSE LET c == LoadedValue(log_data.v["request"].v["content"])
         IN  IF c.t = "dict" /\ "messages" \in DOMAIN c.v /\ c.v["messages"].t = "list"
             THEN c.v["messages"].v ELSE <<>>

\* the messages up to the first one that is neither object, string nor list
MessagesRead ==
    LET bad == {i \in 1..Len(RequestMessages) :
                   RequestMessages[i].t \notin {"dict", "str", "list"}}
    IN  IF bad = {} THEN RequestMessages
        ELSE SubSeq(RequestMessages, 1, (CHOOSE i \in bad : \A j \in bad : i <= j) - 1)

\* one turn per message read that has a role and a content, in order
ExpectedRequestTurns ==
    LET full == SelectSeq(MessagesRead,
                          LAMBDA m : m.t = "dict" /\ {"role", "content"} \subseteq DOMAIN m.v)
    IN  [i \in 1..Len(full) |->
            [role |-> full[i].v["role"], content |-> full[i].v["content"],
             timestamp |-> IF "timestamp" \in DOMAIN log_data.v
                           THEN log_data.v["timestamp"] ELSE None]]

\* what follows the request's turns in the conversation extracted
ResponsePart ==
    SubSeq(conversation, Len(ExpectedRequestTurns) + 1, Len(conversation))

\* C11 (as claimed): a response.content that is a string and does not parse as
\* JSON contributes exactly one turn: role assistant, the raw string, the
\* record's timestamp
C11_RawStringFallback ==
    (/\ pc = "extracted"
     /\ HasResponseContent
     /\ log_data.v["response"].v["content"].t = "str"
     /\ ~\E e \in JsonTexts : e.text = log_data.v["response"].v["content"].v) =>
        ResponsePart =
            <<[role |-> AssistantRole, content |-> log_data.v["response"].v["content"],
               timestamp |-> IF "timestamp" \in DOMAIN log_data.v
                             THEN log_data.v["timestamp"] ELSE None]>>

\* the positions <<chunk, choice>> of the stream that carry a non-empty string
\* as delta.content
DeltaPositions(chunks) ==
    {p \in (1..Len(chunks)) \X (1..3) :
        /\ chunks[p[1]].t = "dict"
        /\ "choices" \in DOMAIN chunks[p[1]].v
        /\ chunks[p[1]].v["choices"].t = "list"
        /\ p[2] <= Len(chunks[p[1]].v["choices"].v)
        /\ LET choice == chunks[p[1]].v["choices"].v[p[2]]
           IN  /\ choice.t = "dict"
               /\ "delta" \in DOMAIN choice.v
               /\ choice.v["delta"].t = "dict"
               /\ "content" \in DOMAIN choice.v["delta"].v
               /\ choice.v["delta"].v["content"].t = "str"
               /\ choice.v["delta"].v["content"].v # <<>>}

\* the delta.content strings at the given positions, joined in chunk order and
\* then choice order
RECURSIVE JoinDeltas(_, _)
JoinDeltas(chunks, ps) ==
    IF ps = {} THEN <<>>
    ELSE LET p == CHOOSE p \in ps :
                     \A q \in ps : p[1] < q[1] \/ (p[1] = q[1] /\ p[2] <= q[2])
         IN  chunks[p[1]].v["choices"].v[p[2]].v["delta"].v["content"].v
             \o JoinDeltas(chunks, ps \ {p})

\* C12: a response.content that is, or parses to, a list of chunks contributes
\* at most one turn: role assistant, content the delta.content strings joined in
\* chunk order and then choice order; it contributes none when that is empty
C12_StreamingReconstruction ==
    (/\ pc = "extracted"
     /\ HasResponseContent
     /\ LoadedValue(log_data.v["response"].v["content"]).t = "list") =>
        LET chunks == LoadedValue(log_data.v["response"].v["content"]).v
            joined == JoinDeltas(chunks, DeltaPositions(chunks))
        IN  /\ Len(ResponsePart) <= 1
            /\ \A k \in 1..Len(ResponsePart) :
                  /\ ResponsePart[k].role = AssistantRole
                  /\ ResponsePart[k].content = PyStr(joined)
            /\ joined = <<>> => ResponsePart = <<>>

\* C12: the stream with a non-object chunk, a chunk of two choices and an empty
\* delta was extracted into one assistant turn
C12_Witness ==
    /\ pc = "extracted"
    /\ HasResponseContent
    /\ log_data.v["response"].v["content"] = MixedChunks
    /\ Len(ResponsePart) = 1
    /\ ResponsePart[1].content = PyStr(<<"H", "e", "l", "l", "o", "!">>)

\* C19: the conversation is the turns of the request's messages, in the order of
\* the list and none for a message lacking role or content, followed by at most
\* one turn, of role assistant
C19_TurnOrdering ==
    pc = "extracted" =>
        /\ Len(conversation) >= Len(ExpectedRequestTurns)
        /\ SubSeq(conversation, 1, Len(ExpectedRequestTurns)) = ExpectedRequestTurns
        /\ Len(ResponsePart) <= 1
        /\ \A k \in 1..Len(ResponsePart) : ResponsePart[k].role = AssistantRole

\* C19: two request messages and a response were extracted into three turns,
\* the assistant's last
C19_Witness ==
    /\ pc = "extracted"
    /\ Len(ExpectedRequestTurns) = 2
    /\ Len(conversation) = 3
    /\ conversation[1].role # conversation[2].role
    /\ conversation[3].role = AssistantRole

\* C13: machine id, IP and editor version are the 2nd, 3rd and 4th
\* underscore-delimited tokens of the file name, each "unknown" when its token
\* does not exist, and the metadata holds all three
C13_FilenameDecoding ==
    pc = "decoded" =>
        /\ {"machine_id", "ip_address", "editor_version"} \subseteq DOMAIN metadata
        /\ metadata["machine_id"] = IF Len(tokens) >= 2 THEN tokens[2] ELSE Unknown
        /\ metadata["ip_address"] = IF Len(tokens) >= 3 THEN tokens[3] ELSE Unknown
        /\ metadata["editor_version"] = IF Len(tokens) >= 4 THEN tokens[4] ELSE Unknown

\* C13: a file name of two tokens was decoded: the machine id is its second
\* token, IP and editor version are "unknown"
C13_Witness ==
    /\ pc = "decoded"
    /\ Len(tokens) = 2
    /\ tokens[2] # <<>>
    /\ metadata["machine_id"] = tokens[2]
    /\ metadata["ip_address"] = Unknown
    /\ metadata["editor_version"] = Unknown

\* s is an initial part of t
IsPrefix(s, t) == Len(s) <= Len(t) /\ s = SubSeq(t, 1, Len(s))

\* C16: the ledger only grows at its end: every step keeps the text of the ledger,
\* and the sequence of its lines, as an initial part of what follows
C16_AppendOnly ==
    [][/\ IsPrefix(ledger_file, ledger_file')
       /\ IsPrefix(readlines(ledger_file), readlines(ledger_file'))]_vars

\* C16: a run the sink rejected appended a path, and the run after it appended
\* another one behind it
C16_Witness ==
    /\ runs = 2
    /\ prev.sink \in {"index_error", "bulk_error"}
    /\ prev.marked # {}
    /\ run.marked # {}
    /\ Len(readlines(ledger_file)) >= 2

\* C17: a run that discovers no file appends nothing to the ledger, submits no
\* bulk write, creates no index, and returns to its caller without raising
C17_EmptyRunNoOp ==
    [][(pc = "idle" /\ runs' = runs + 1 /\ run'.discovered /\ run'.files = <<>>) =>
          /\ ledger_file' = ledger_file
          /\ index_exists' = index_exists
          /\ ~run'.submitted
          /\ run'.marked = {}
          /\ raised' = raised
          /\ pc' = "ended"
          /\ run'.end = "returned"]_vars

\* C17: with the ledger holding the files of the first run and no index created,
\* a second run discovered nothing and returned
C17_Witness ==
    /\ runs = 2
    /\ pc = "ended"
    /\ run.discovered
    /\ run.files = <<>>
    /\ run.end = "returned"
    /\ ledger_file # <<>>
    /\ ~index_exists

\* C20: a file holding a JSON object without conversation turns is processed
\* like any successfully processed file: its iteration, when the process lives
\* through it, adds its document, with
\* an empty conversation, to the run's documents and appends its path to the
\* ledger (unless the append itself fails), and the documents the run hands to
\* the bulk write hold it
C20_ZeroTurnDocument ==
    [][/\ (pc = "extracting" /\ content[CurrentFile] = ZeroTurn /\ run'.end = "running") =>
             /\ run'.docs = Append(run.docs, CurrentFile)
             /\ CurrentFile \notin run'.failed
             /\ CurrentFile \in run'.marked \cup run'.mark_failed
             /\ CurrentFile \in run'.marked =>
                    ledger_file' = ledger_file \o PathOf(CurrentFile) \o <<"\n">>
             /\ pc' \in {"extracting", "writing"}
             /\ Len(documents') = Len(documents) + 1
             /\ Last(documents').conversation = <<>>
             /\ Last(documents').file_name = basename(PathOf(CurrentFile))
       /\ (pc = "writing" /\ run'.submitted) =>
             /\ Len(documents) = Len(run.docs)
             /\ \A i \in 1..Len(run.docs) :
                   content[run.docs[i]] = ZeroTurn =>
                       /\ documents[i].conversation = <<>>
                       /\ documents[i].file_name = basename(PathOf(run.docs[i]))]_vars

\* C20: a run submitted the document of a file without turns, the sink accepted
\* it, and the file's path reads back from the ledger
C20_Witness ==
    /\ pc = "ended"
    /\ run.submitted
    /\ \E f \in run.accepted :
          /\ content[f] = ZeroTurn
          /\ f \in run.marked
          /\ PathOf(f) \in get_processed_files(ledger_file)

\* the source directories listed behind one that does not exist
BehindMissing ==
    {LOG_SOURCE_DIRS[j] : j \in {j \in 1..Len(LOG_SOURCE_DIRS) :
                                    \E i \in 1..(j - 1) : LOG_SOURCE_DIRS[i] \notin ExistingRoots}}

\* the cap leaves no unprocessed file out
Uncapped == \A n \in max_files : n <= 0 \/ n >= Cardinality(Eligible)

\* C18: a source directory that does not exist is skipped and contributes no
\* file; the unprocessed .json files of every directory that exists, those
\* listed behind the missing one included, are returned (all of them when the
\* cap leaves none out, and enough of them to fill the cap otherwise)
C18_MissingRootSkipped ==
    pc = "listed" =>
        /\ \E i \in 1..Len(LOG_SOURCE_DIRS) : LOG_SOURCE_DIRS[i] \notin ExistingRoots
        /\ \A f \in Range(Selected) :
              \E i \in 1..Len(LOG_SOURCE_DIRS) :
                  LOG_SOURCE_DIRS[i] \in ExistingRoots /\ Under(FileTable[f].dir, LOG_SOURCE_DIRS[i])
        /\ Uncapped => Eligible \subseteq Range(Selected)
        /\ ~Uncapped => \A n \in max_files : Len(Selected) = n

\* C18: files of the directory ahead of the missing one and of the one behind
\* it were returned in one call
C18_Witness ==
    /\ pc = "listed"
    /\ \E f, g \in Range(Selected) :
          /\ Under(FileTable[f].dir, LOG_SOURCE_DIRS[1])
          /\ \E r \in BehindMissing : Under(FileTable[g].dir, r)

\* C14 (as claimed): a stop signal takes effect between file tasks only: the run
\* it stops has cut no file's iteration short, every path it appended to the
\* ledger is of a file whose document was collected, and every file whose
\* document was collected went on to the ledger append
C14_StopBetweenFiles ==
    run.end = "stopped" =>
        /\ run.interrupted = {}
        /\ run.marked \subseteq Range(run.docs)
        /\ Range(run.docs) \subseteq run.marked \cup run.mark_failed

\* the invocations of process_logs that are reading or appending to the ledger
Active == {i \in 1..Len(calls) : calls[i] \in {"reading", "appending"}}

\* C15: under the watcher loop and under the scheduled loop, an invocation of
\* process_logs starts only when every earlier one has returned: at most one is
\* reading or appending to the ledger at any time
C15_RunsNeverOverlap ==
    /\ Cardinality(Active) <= 1
    /\ \A i \in 1..(Len(calls) - 1) : calls[i] = "returned"

\* C15: an invocation lasted longer than the interval, and the next one, started
\* after its return, is appending to the ledger
C15_Witness ==
    /\ Len(calls) >= 2
    /\ driver.late
    /\ Last(calls) = "appending"

\* C21 (as claimed): a call of process_files on an instance returns from discovery
\* no file whose path an earlier call on the same instance appended to the ledger
C21_MirrorAgrees ==
    [][pc' = "called" =>
          \A i \in 1..Len(files_to_process') :
              FileOfPath(files_to_process'[i].path) \notin recorded]_vars

\* the file holds a JSON object: process_file assembles a document from it
Assemblable(f) == content[f].kind = "json" /\ content[f].data.t = "dict"

\* the discovered files a document can be assembled from, in discovery order
AssembledInOrder ==
    SelectSeq(files_to_process, LAMBDA info : Assemblable(FileOfPath(info.path)))

\* C22: a run hands documents to the sink once, in the step that ends it, and
\* the documents handed over are those of the discovered files a document could
\* be assembled from, one per file, in discovery order (oldest first): none of a
\* failed file, none of a file the run did not discover
C22_OneWritePerRun ==
    [][pc = "writing" =>
          /\ pc' = "ended"
          /\ run'.submitted => pc' = "ended" /\ ~run.submitted
          /\ Len(documents) = Len(AssembledInOrder)
          /\ \A i \in 1..Len(documents) :
                /\ documents[i].file_name = basename(AssembledInOrder[i].path)
                /\ documents[i].user_id = AssembledInOrder[i].user_id
          /\ \A i, j \in 1..Len(files_to_process) :
                i < j => mtime[FileOfPath(files_to_process[i].path)]
                            <= mtime[FileOfPath(files_to_process[j].path)]]_vars

\* C22: after a run that assembled documents, a second run is about to submit
\* the documents of two files
C22_Witness ==
    /\ pc = "writing"
    /\ runs = 2
    /\ prev.docs # <<>>
    /\ Len(documents) = 2
    /\ Len(AssembledInOrder) = 2

\* C24 (as claimed): no path is appended to the ledger twice: a step that appends
\* the line of a file appends that of a file not appended before
C24_NoDuplicates ==
    [][\A f \in FileIds :
          ledger_file' = ledger_file \o PathOf(f) \o <<"\n">> => f \notin recorded]_vars

\* C25: when the callback raises an Exception, FileWatcher.start absorbs it, sets
\* last_processed_time, keeps running and sleeps; and at a test of the loop with
\* the interval elapsed after such a failure, the callback is invoked again
\* (unless a signal ends the loop)
C25_WatcherSurvives ==
    [][/\ (driver.at = "in_callback" /\ ~driver.failed /\ driver'.failed) =>
             /\ driver'.running
             /\ driver'.at = "sleep"
             /\ driver'.last_processed_time = clock
       /\ (/\ driver.mode = "watch" /\ driver.at = "test" /\ driver.failed
           /\ clock - driver.last_processed_time >= PROCESS_INTERVAL
           /\ Len(calls) < MaxCalls) =>
             \/ driver'.at = "exited"
             \/ Len(calls') = Len(calls) + 1 /\ driver'.at = "in_callback"]_vars

\* C25: the first callback raised, and one interval later the watcher is in its
\* second callback
C25_Witness ==
    /\ driver.mode = "watch"
    /\ driver.failed
    /\ driver.running
    /\ driver.at = "in_callback"
    /\ Len(calls) = 2
    /\ clock - driver.returned_at >= PROCESS_INTERVAL

\* C26: the watcher invokes the callback only when at least the interval has
\* passed since last_processed_time, which is the time of construction before
\* the first callback and the time the latest callback ended after it: no
\* callback begins before one interval after construction (time 0), nor before
\* one interval after the end of the callback before it
C26_IntervalGating ==
    [][(driver.mode = "watch" /\ Len(calls') = Len(calls) + 1) =>
          /\ clock - driver.last_processed_time >= PROCESS_INTERVAL
          /\ clock >= PROCESS_INTERVAL
          /\ driver.last_processed_time = (IF calls = <<>> THEN 0 ELSE driver.returned_at)
          /\ calls # <<>> => clock - driver.returned_at >= PROCESS_INTERVAL]_vars

\* C26: a second callback has begun, one interval or more after the first one,
\* which outlasted the interval, ended
C26_Witness ==
    /\ driver.mode = "watch"
    /\ Len(calls) = 2
    /\ driver.late
    /\ driver.started - driver.returned_at >= PROCESS_INTERVAL
    /\ driver.returned_at > PROCESS_INTERVAL

\* C23 (as claimed), in its finite form.  With the files fixed and every append
\* succeeding, what a run does is determined by the files and the ledger, so a
\* run that leaves the ledger as it found it is repeated unchanged by every
\* later run.  Progress after finitely many runs therefore requires that such a
\* run leaves no file that holds a JSON object unrecorded
C23_Progress ==
    [][ledger_file' = ledger_file =>
          \A f \in present :
              (endswith(FileTable[f].name, JsonExt) /\ Assemblable(f)) => f \in recorded]_vars

====
